---- MODULE Spec2Model ----
(***************************************************************************)
(* Model of the podman command surface in cmd/podman: the start command    *)
(* (startCmd), container prune (pruneContainers, pruneContainersCmd), and  *)
(* the shared selection helpers of common.go (checkAllAndLatest,           *)
(* getAllOrLatestContainers, validateFlags).                               *)
(*                                                                         *)
(* The libpod runtime is an external collaborator.  Its state is a set of  *)
(* live containers, each with a lifecycle state, a pod reference and a     *)
(* create-config artifact; every call on it may succeed or fail.           *)
(***************************************************************************)
EXTENDS Integers, Sequences, FiniteSets, TLC

VARIABLES
    cmd,        \* the command this invocation runs
    cargs,      \* c.Args(): identifiers given on the command line
    flags,      \* the flag values of the cli.Context
    pc,         \* position of the command: "entry", "loop", "pool", "done"
    args,       \* startCmd: local args (c.Args() plus the latest container)
    idx,        \* position of the range loop over the identifiers
    sigProxy,   \* startCmd: local sigProxy
    lastError,  \* local lastError of startCmd / getAllOrLatestContainers
    ret,        \* the error the command (or function) returned
    exitCode,   \* the package-level exitCode variable
    rtOpen,     \* "none", "open", "failed" or "shutdown": GetRuntime / Shutdown
    live,       \* runtime: the containers that exist
    ctrState,   \* runtime: lifecycle state of each container
    ctrRm,      \* runtime: container was created with --rm
    ctrPod,     \* runtime: pod ID of each container ("" when in no pod)
    calls,      \* every call issued on the runtime or on a container, in order
    attachCalls,\* the arguments of every startAttachCtr call, in order
    stdout,     \* lines written to os.Stdout
    stderr,     \* errors written to os.Stderr
    iterLog,    \* startCmd: what each loop iteration observed, in order
    containers, \* getAllOrLatestContainers / pruneContainers: result handles
    units,      \* pruneContainers: deleteFuncs handed to the worker pool
    unitSt,     \* worker pool: state of each unit
    poolErrs,   \* worker pool: deleteErrors (container ID -> error) once run
    filterState,\* getAllOrLatestContainers: the filterState argument
    maxWorkers  \* pruneContainersCmd: local maxWorkers

vars == << cmd, cargs, flags, pc, args, idx, sigProxy, lastError, ret, exitCode,
           rtOpen, live, ctrState, ctrRm, ctrPod, calls, attachCalls, stdout,
           stderr, iterLog, containers, units, unitSt, poolErrs, filterState,
           maxWorkers >>

----------------------------------------------------------------------------
(* Bounds and universes *)

MaxArgs == 2

\* Longest identifier list given to getAllOrLatestContainers
MaxIds == 3

\* Largest worker count of the pool
MaxWorkers == 2

Containers == {"c1", "c2"}

\* Identifiers a user can type: full IDs, the name of c1, a name nobody has.
Idents == Containers \cup {"web", "ghost"}

\* libpod.ContainerStatus
ContainerStateUnknown    == "Unknown"
ContainerStateConfigured == "Configured"
ContainerStateCreated    == "Created"
ContainerStateRunning    == "Running"
ContainerStateStopped    == "Stopped"
ContainerStatePaused     == "Paused"
ContainerStateExited     == "Exited"

States == { ContainerStateUnknown, ContainerStateConfigured,
            ContainerStateCreated, ContainerStateRunning,
            ContainerStateStopped, ContainerStatePaused,
            ContainerStateExited }

Pods == {"", "pod1"}

\* The value of filterState that asks for no filtering (-1)
NoFilter == "-1"

\* Values of the detach-keys option: unset, the next option swallowed as the
\* value, a lone dash.
DetachKeys == { <<>>, <<"-", "i">>, <<"-">> }

SeqsUpTo(S, n) == UNION { [1..k -> S] : k \in 0..n }

----------------------------------------------------------------------------
(* Errors *)

Err(kind, arg) == [kind |-> kind, arg |-> arg]

Nil == Err("nil", "")

\* The errors of the InvalidArgument class: bad flag combinations, detected
\* before any runtime call.
InvalidArgument == { Err("NoContainerGiven", ""), Err("MultipleAttach", ""),
                     Err("OptionRequiresValue", "detach-keys"),
                     Err("SigProxyWithoutAttach", "") }

----------------------------------------------------------------------------
(* cli.Context *)

\* c.Bool(name): false for a flag the command does not declare
Bool(c, name) == IF name \in DOMAIN c THEN c[name] = "true" ELSE FALSE

\* c.BoolT(name): a BoolT flag is true unless it was given as false
BoolT(c, name) == IF name \in DOMAIN c THEN c[name] # "false" ELSE FALSE

\* c.IsSet(name)
IsSet(c, name) == IF name \in DOMAIN c THEN c[name] # "unset" ELSE FALSE

\* c.String(name)
String(c, name) == IF name \in DOMAIN c THEN c[name] ELSE <<>>

\* regexp.MatchString("^-.+", v)
LooksLikeOption(v) == Len(v) >= 2 /\ v[1] = "-"

\* validateFlags(c, startFlags): detach-keys is the only StringFlag of startFlags
validateFlags(c) ==
    IF LooksLikeOption(String(c, "detach-keys"))
    THEN Err("OptionRequiresValue", "detach-keys")
    ELSE Nil

BoolStr(b) == IF b THEN "true" ELSE "false"

\* The flag values of a start invocation (startFlags).
StartFlags(attach, interactive, sp, latest, dk) ==
    [ attach |-> BoolStr(attach), interactive |-> BoolStr(interactive),
      latest |-> BoolStr(latest) ]
    @@ ("sig-proxy" :> sp) @@ ("detach-keys" :> dk)

----------------------------------------------------------------------------
(* The runtime *)

\* The container an identifier names: a full ID names itself, "web" is the
\* name of c2, "ghost" names nothing.
Resolve(i) == IF i \in Containers THEN i ELSE IF i = "web" THEN "c2" ELSE ""

\* runtime.LookupContainer(i) finds a container
LookupOk(i) == Resolve(i) \in live

Call(op, on, force) == [op |-> op, on |-> on, iter |-> idx, force |-> force]

CallsIn(op, i) == { k \in 1..Len(calls) : calls[k].op = op /\ calls[k].iter = i }

----------------------------------------------------------------------------
(* startCmd: entry checks *)

\* len(args) < 1 && !c.Bool("latest")
NoContainerGiven(a, c) == Len(a) < 1 /\ ~Bool(c, "latest")

\* len(args) > 1 && attach
MultipleAttach(a, c) == Len(a) > 1 /\ Bool(c, "attach")

SigProxyWithoutAttach_NoIsSet(c) ==
    BoolT(c, "sig-proxy") /\ ~Bool(c, "attach")

\* sigProxy && !attach, with sig-proxy given on the command line
SigProxyWithoutAttach(c) ==
    BoolT(c, "sig-proxy") /\ ~Bool(c, "attach") /\ IsSet(c, "sig-proxy")

\* The value local sigProxy has once the entry checks have passed.
EffectiveSigProxy(c) ==
    IF BoolT(c, "sig-proxy") /\ ~Bool(c, "attach") THEN FALSE
    ELSE BoolT(c, "sig-proxy")

\* The error of the checks startCmd makes before it creates the runtime,
\* in the order the code makes them; Nil when they all pass.
StartEntryError(a, c) ==
    IF NoContainerGiven(a, c) THEN Err("NoContainerGiven", "")
    ELSE IF MultipleAttach(a, c) THEN Err("MultipleAttach", "")
    ELSE IF validateFlags(c) # Nil THEN validateFlags(c)
    ELSE IF SigProxyWithoutAttach(c) THEN Err("SigProxyWithoutAttach", "")
    ELSE Nil

inputVars == << cmd, cargs, flags >>
envVars   == << live, ctrState, ctrRm, ctrPod >>
outVars   == << stdout, stderr >>
pruneVars == << containers, units, unitSt, poolErrs, maxWorkers >>

\* One of the entry checks fails: startCmd returns its error.
StartRejected ==
    /\ cmd = "start" /\ pc = "entry"
    /\ StartEntryError(cargs, flags) # Nil
    /\ ret' = StartEntryError(cargs, flags)
    /\ pc' = "done"
    /\ UNCHANGED << inputVars, envVars, outVars, pruneVars, args, idx, sigProxy,
                    lastError, exitCode, rtOpen, calls, attachCalls, iterLog,
                    filterState >>

\* libpodruntime.GetRuntime(c) fails.
StartRuntimeFailed ==
    /\ cmd = "start" /\ pc = "entry"
    /\ StartEntryError(cargs, flags) = Nil
    /\ sigProxy' = EffectiveSigProxy(flags)
    /\ rtOpen' = "failed"
    /\ ret' = Err("RuntimeCreate", "")
    /\ pc' = "done"
    /\ UNCHANGED << inputVars, envVars, outVars, pruneVars, args, idx,
                    lastError, exitCode, calls, attachCalls, iterLog, filterState >>

\* --latest, and runtime.GetLatestContainer() fails.
StartLatestFailed ==
    /\ cmd = "start" /\ pc = "entry"
    /\ StartEntryError(cargs, flags) = Nil
    /\ Bool(flags, "latest")
    /\ sigProxy' = EffectiveSigProxy(flags)
    /\ calls' = Append(calls, Call("latest", "", FALSE))
    /\ rtOpen' = "shutdown"
    /\ ret' = Err("LatestFailed", "")
    /\ pc' = "done"
    /\ UNCHANGED << inputVars, envVars, outVars, pruneVars, args, idx,
                    lastError, exitCode, attachCalls, iterLog, filterState >>

\* The entry checks pass and the runtime is created; with --latest the ID of
\* the latest container is appended to args.  The loop begins.
StartBegin ==
    /\ cmd = "start" /\ pc = "entry"
    /\ StartEntryError(cargs, flags) = Nil
    /\ sigProxy' = EffectiveSigProxy(flags)
    /\ rtOpen' = "open"
    /\ IF Bool(flags, "latest")
       THEN \E lastCtr \in live :
              /\ calls' = Append(calls, Call("latest", "", FALSE))
              /\ args' = Append(cargs, lastCtr)
       ELSE /\ calls' = calls
            /\ args' = cargs
    /\ idx' = 1
    /\ pc' = "loop"
    /\ UNCHANGED << inputVars, envVars, outVars, pruneVars, lastError, ret,
                    exitCode, attachCalls, iterLog, filterState >>

----------------------------------------------------------------------------
(* startCmd: the loop over args *)

InLoop == cmd = "start" /\ pc = "loop" /\ idx <= Len(args)

\* What one iteration observed.
Iter(ident, ctr, outcome, artifact, rm) ==
    [ident |-> ident, ctr |-> ctr, outcome |-> outcome,
     artifact |-> artifact, rm |-> rm]

FlushLastError_Nothing(errs, e) == errs

\* if lastError != nil { fmt.Fprintln(os.Stderr, lastError) }
FlushLastError(errs, e) == IF e # Nil THEN Append(errs, e) ELSE errs

IsRunning_Never(st) == FALSE

IsRunning_Inverted(st) == st # ContainerStateRunning

\* ctrRunning := ctrState == libpod.ContainerStateRunning
IsRunning(st) == st = ContainerStateRunning

\* The lookup fails: the pending error is printed, the new one is kept and
\* the loop continues.
StartLookupFail ==
    /\ InLoop
    /\ ~LookupOk(args[idx])
    /\ calls' = Append(calls, Call("lookup", args[idx], FALSE))
    /\ stderr' = FlushLastError(stderr, lastError)
    /\ lastError' = Err("UnableToFind", args[idx])
    /\ iterLog' = Append(iterLog, Iter(args[idx], "", "lookupFailed", "", FALSE))
    /\ idx' = idx + 1
    /\ UNCHANGED << inputVars, envVars, pruneVars, pc, args, sigProxy, ret,
                    exitCode, rtOpen, attachCalls, stdout, filterState >>

\* ctr.State() fails: startCmd returns.
StartStateFail ==
    /\ InLoop
    /\ LookupOk(args[idx])
    /\ LET ctr == Resolve(args[idx]) IN
       /\ calls' = calls \o << Call("lookup", args[idx], FALSE),
                               Call("state", ctr, FALSE) >>
       /\ iterLog' = Append(iterLog, Iter(args[idx], ctr, "stateFailed", "", FALSE))
    /\ ret' = Err("StateFailed", "")
    /\ rtOpen' = "shutdown"
    /\ pc' = "done"
    /\ UNCHANGED << inputVars, envVars, outVars, pruneVars, args, idx, sigProxy,
                    lastError, exitCode, attachCalls, filterState >>

\* No attach, the container is running: its ID is echoed.
StartAlreadyRunning ==
    /\ InLoop
    /\ LookupOk(args[idx])
    /\ ~Bool(flags, "attach")
    /\ LET ctr == Resolve(args[idx]) IN
       /\ IsRunning(ctrState[ctr])
       /\ calls' = calls \o << Call("lookup", args[idx], FALSE),
                               Call("state", ctr, FALSE) >>
       /\ stdout' = Append(stdout, ctr)
       /\ iterLog' = Append(iterLog, Iter(args[idx], ctr, "running", "", FALSE))
    /\ idx' = idx + 1
    /\ UNCHANGED << inputVars, envVars, pruneVars, pc, args, sigProxy, lastError,
                    ret, exitCode, rtOpen, attachCalls, stderr, filterState >>

\* A detached start that waits for the container it started and takes its
\* exit code.
StartOk_Waits ==
    /\ InLoop
    /\ LookupOk(args[idx])
    /\ ~Bool(flags, "attach")
    /\ LET ctr == Resolve(args[idx]) IN
       /\ ~IsRunning(ctrState[ctr])
       /\ calls' = calls \o << Call("lookup", args[idx], FALSE),
                               Call("state", ctr, FALSE),
                               Call("start", ctr, FALSE),
                               Call("wait", ctr, FALSE) >>
       /\ ctrState' = [ctrState EXCEPT ![ctr] = ContainerStateRunning]
       /\ stdout' = Append(stdout, args[idx])
       /\ iterLog' = Append(iterLog, Iter(args[idx], ctr, "started", "", FALSE))
    /\ exitCode' = 0
    /\ idx' = idx + 1
    /\ UNCHANGED << inputVars, live, ctrRm, ctrPod, pruneVars, pc, args, sigProxy,
                    lastError, ret, rtOpen, attachCalls, stderr, filterState >>

\* No attach, ctr.Start(ctx) succeeds: the identifier as given is echoed.
StartOk ==
    /\ InLoop
    /\ LookupOk(args[idx])
    /\ ~Bool(flags, "attach")
    /\ LET ctr == Resolve(args[idx]) IN
       /\ ~IsRunning(ctrState[ctr])
       /\ calls' = calls \o << Call("lookup", args[idx], FALSE),
                               Call("state", ctr, FALSE),
                               Call("start", ctr, FALSE) >>
       /\ ctrState' = [ctrState EXCEPT ![ctr] = ContainerStateRunning]
       /\ stdout' = Append(stdout, args[idx])
       /\ iterLog' = Append(iterLog, Iter(args[idx], ctr, "started", "", FALSE))
    /\ idx' = idx + 1
    /\ UNCHANGED << inputVars, live, ctrRm, ctrPod, pruneVars, pc, args, sigProxy,
                    lastError, ret, exitCode, rtOpen, attachCalls, stderr, filterState >>

\* createArtifact.Rm after the artifact was loaded and decoded: the flag the
\* container was created with; after a failed decode the flag only if the
\* decoder had filled the field in (partial), else the zero value.
DecodedRm(jsonOk, policy, partial) == IF jsonOk THEN policy ELSE policy /\ partial

ShouldRemove_IgnoreArtifactErr(artifactOk, rm) == rm

\* if artifactErr == nil { ...; if createArtifact.Rm { RemoveContainer } }
ShouldRemove(artifactOk, rm) == artifactOk /\ rm

\* A rollback that lets its own failure replace the start error.
RecordedStartError_RollbackErrorWins(container, artifactOk, jsonOk, rmOk) ==
    IF ~artifactOk THEN Err("ArtifactFailed", container)
    ELSE IF ~rmOk THEN Err("RemoveFailed", container)
    ELSE Err("UnableToStart", container)

\* lastError = errors.Wrapf(err, "unable to start container %q", container),
\* err being the error of ctr.Start: artifactErr is dropped, jsonErr and rmErr
\* are logged, none of them is recorded.
RecordedStartError(container, artifactOk, jsonOk, rmOk) ==
    Err("UnableToStart", container)

\* No attach, ctr.Start(ctx) fails: the create-config artifact decides whether
\* the container is removed (forced); the pending error is printed and the
\* start error kept; the loop continues.
StartFail ==
    /\ InLoop
    /\ LookupOk(args[idx])
    /\ ~Bool(flags, "attach")
    /\ LET ctr == Resolve(args[idx]) IN
       /\ ~IsRunning(ctrState[ctr])
       /\ \E artifactOk \in BOOLEAN, jsonOk \in BOOLEAN, partial \in BOOLEAN,
             rmOk \in BOOLEAN :
            LET rm     == DecodedRm(jsonOk, ctrRm[ctr], partial)
                remove == ShouldRemove(artifactOk, rm)
                art    == IF ~artifactOk THEN "loadErr"
                          ELSE IF ~jsonOk THEN "jsonErr" ELSE "ok"
            IN
            \* outcomes that cannot be told apart are taken once
            /\ (~artifactOk => jsonOk /\ ~partial)
            /\ (jsonOk => ~partial)
            /\ (~remove => rmOk)
            /\ calls' = calls \o << Call("lookup", args[idx], FALSE),
                                    Call("state", ctr, FALSE),
                                    Call("start", ctr, FALSE),
                                    Call("artifact", ctr, FALSE) >>
                              \o (IF remove THEN << Call("remove", ctr, TRUE) >>
                                  ELSE << >>)
            /\ live' = IF remove /\ rmOk THEN live \ {ctr} ELSE live
            /\ iterLog' = Append(iterLog,
                   Iter(args[idx], ctr, "startFailed", art, artifactOk /\ rm))
            /\ lastError' = RecordedStartError(args[idx], artifactOk, jsonOk, rmOk)
    /\ stderr' = FlushLastError(stderr, lastError)
    /\ idx' = idx + 1
    /\ UNCHANGED << inputVars, ctrState, ctrRm, ctrPod, pruneVars, pc, args,
                    sigProxy, ret, exitCode, rtOpen, attachCalls, stdout, filterState >>

\* The runtime, while the loop has targets left: the process of a container
\* this invocation started, and which is still to be examined again, exits,
\* and the container stops. (A container that was running before the
\* invocation and exits before it is examined is the same as one that was
\* not running to begin with.)
ContainerExits ==
    /\ InLoop
    /\ \E c \in live :
         /\ ctrState[c] = ContainerStateRunning
         /\ \E j \in 1..Len(calls) : calls[j].op = "start" /\ calls[j].on = c
         /\ \E i \in idx..Len(args) : Resolve(args[i]) = c
         /\ ctrState' = [ctrState EXCEPT ![c] = ContainerStateStopped]
    /\ UNCHANGED << inputVars, live, ctrRm, ctrPod, outVars, pruneVars, pc, args,
                    idx, sigProxy, lastError, ret, exitCode, rtOpen, calls,
                    attachCalls, iterLog, filterState >>

\* The loop is over: return lastError.
StartReturn ==
    /\ cmd = "start" /\ pc = "loop" /\ idx > Len(args)
    /\ ret' = lastError
    /\ rtOpen' = "shutdown"
    /\ pc' = "done"
    /\ UNCHANGED << inputVars, envVars, outVars, pruneVars, args, idx, sigProxy,
                    lastError, exitCode, calls, attachCalls, iterLog, filterState >>

----------------------------------------------------------------------------
(* startCmd: attach *)

ExitCodes == {0, 3}

\* inputStream := os.Stdin; if !c.Bool("interactive") { inputStream = nil }
InputStream(c) == IF Bool(c, "interactive") THEN "os.Stdin" ELSE "nil"

\* The call with its last argument fixed to true.
AttachCall_AlwaysStart(ctr, ctrRunning) ==
    [ctr |-> ctr, stdin |-> InputStream(flags),
     detachKeys |-> String(flags, "detach-keys"),
     sigProxy |-> sigProxy, start |-> TRUE]

\* startAttachCtr(ctr, os.Stdout, os.Stderr, inputStream,
\*                c.String("detach-keys"), sigProxy, !ctrRunning)
AttachCall(ctr, ctrRunning) ==
    [ctr |-> ctr, stdin |-> InputStream(flags),
     detachKeys |-> String(flags, "detach-keys"),
     sigProxy |-> sigProxy, start |-> ~ctrRunning]

\* Attach to a running container: the attach error, if any, is returned as is.
StartAttachRunning ==
    /\ InLoop
    /\ LookupOk(args[idx])
    /\ Bool(flags, "attach")
    /\ LET ctr == Resolve(args[idx]) IN
       /\ IsRunning(ctrState[ctr])
       /\ calls' = calls \o << Call("lookup", args[idx], FALSE),
                               Call("state", ctr, FALSE),
                               Call("attach", ctr, FALSE) >>
       /\ attachCalls' = Append(attachCalls, AttachCall(ctr, TRUE))
       /\ iterLog' = Append(iterLog, Iter(args[idx], ctr, "attached", "", FALSE))
       /\ \E ok \in BOOLEAN : ret' = IF ok THEN Nil ELSE Err("AttachFailed", ctr)
    /\ rtOpen' = "shutdown"
    /\ pc' = "done"
    /\ UNCHANGED << inputVars, envVars, outVars, pruneVars, args, idx, sigProxy,
                    lastError, exitCode, filterState >>

\* Attach and start a container that is not running, and the attach fails.
StartAttachFail ==
    /\ InLoop
    /\ LookupOk(args[idx])
    /\ Bool(flags, "attach")
    /\ LET ctr == Resolve(args[idx]) IN
       /\ ~IsRunning(ctrState[ctr])
       /\ calls' = calls \o << Call("lookup", args[idx], FALSE),
                               Call("state", ctr, FALSE),
                               Call("attach", ctr, FALSE) >>
       /\ attachCalls' = Append(attachCalls, AttachCall(ctr, FALSE))
       /\ iterLog' = Append(iterLog, Iter(args[idx], ctr, "attachFailed", "", FALSE))
       /\ \E started \in BOOLEAN :
            ctrState' = IF started
                        THEN [ctrState EXCEPT ![ctr] = ContainerStateRunning]
                        ELSE ctrState
       /\ ret' = Err("UnableToStart", ctr)
    /\ rtOpen' = "shutdown"
    /\ pc' = "done"
    /\ UNCHANGED << inputVars, live, ctrRm, ctrPod, outVars, pruneVars, args, idx,
                    sigProxy, lastError, exitCode, filterState >>

\* What the iteration that attached, waited and cleaned up observed: whether
\* ctr.Wait() succeeded, and the exit code of the container's process.
IterWait(ident, ctr, waitOk, ecode) ==
    [ident |-> ident, ctr |-> ctr, outcome |-> "attachedWaited",
     artifact |-> "", rm |-> FALSE, waitOk |-> waitOk, ecode |-> ecode]

ExitCodeAfterWait_Kept(old, waitOk, ecode) == old

\* if ecode, err := ctr.Wait(); err != nil { logrus.Errorf(...) }
\* else { exitCode = int(ecode) }
ExitCodeAfterWait(old, waitOk, ecode) == IF waitOk THEN ecode ELSE old

\* Attach and start a container that is not running; the session ends, then
\* ctr.Wait() gives the exit code and ctr.Cleanup(ctx) gives the result.
StartAttachWait ==
    /\ InLoop
    /\ LookupOk(args[idx])
    /\ Bool(flags, "attach")
    /\ LET ctr == Resolve(args[idx]) IN
       /\ ~IsRunning(ctrState[ctr])
       /\ calls' = calls \o << Call("lookup", args[idx], FALSE),
                               Call("state", ctr, FALSE),
                               Call("attach", ctr, FALSE),
                               Call("wait", ctr, FALSE),
                               Call("cleanup", ctr, FALSE) >>
       /\ attachCalls' = Append(attachCalls, AttachCall(ctr, FALSE))
       /\ \E waitOk \in BOOLEAN, ecode \in ExitCodes, cleanupOk \in BOOLEAN :
            /\ iterLog' = Append(iterLog, IterWait(args[idx], ctr, waitOk, ecode))
            /\ exitCode' = ExitCodeAfterWait(exitCode, waitOk, ecode)
            /\ ret' = IF cleanupOk THEN Nil ELSE Err("CleanupFailed", ctr)
            /\ ctrState' = [ctrState EXCEPT ![ctr] =
                              IF cleanupOk THEN ContainerStateExited
                              ELSE IF waitOk THEN ContainerStateStopped
                              ELSE ContainerStateRunning]
    /\ rtOpen' = "shutdown"
    /\ pc' = "done"
    /\ UNCHANGED << inputVars, live, ctrRm, ctrPod, outVars, pruneVars, args, idx,
                    sigProxy, lastError, filterState >>

----------------------------------------------------------------------------
(* The start command *)

\* Identifiers given on the command line
ArgIdents == {"c1", "web", "ghost"}

SigProxyValues == {"unset", "true", "false"}

\* Lifecycle states the containers are in when start is invoked
StartStates == { ContainerStateCreated, ContainerStateRunning }

Idle ==
    /\ args = << >> /\ idx = 0 /\ sigProxy = FALSE
    /\ lastError = Nil /\ ret = Nil /\ exitCode = 125 /\ rtOpen = "none"
    /\ calls = << >> /\ attachCalls = << >> /\ stdout = << >> /\ stderr = << >>
    /\ iterLog = << >> /\ containers = << >> /\ units = << >>
    /\ unitSt = << >> /\ poolErrs = << >> /\ maxWorkers = 0
    /\ pc = "entry"

InitStart ==
    /\ cmd = "start"
    /\ cargs \in SeqsUpTo(ArgIdents, MaxArgs)
    /\ \E attach \in BOOLEAN, interactive \in BOOLEAN, latest \in BOOLEAN,
          sp \in SigProxyValues, dk \in DetachKeys :
         flags = StartFlags(attach, interactive, sp, latest, dk)
    /\ live = Containers
    /\ ctrState \in [Containers -> StartStates]
    /\ ctrRm \in [Containers -> BOOLEAN]
    /\ ctrPod = [c \in Containers |-> ""]
    /\ filterState = NoFilter
    /\ Idle

NextStart ==
    \/ StartRejected
    \/ StartRuntimeFailed
    \/ StartLatestFailed
    \/ StartBegin
    \/ StartLookupFail
    \/ StartStateFail
    \/ StartAlreadyRunning
    \/ StartOk
    \/ StartFail
    \/ StartAttachRunning
    \/ StartAttachFail
    \/ StartAttachWait
    \/ ContainerExits
    \/ StartReturn

SpecStart == InitStart /\ [][NextStart]_vars

----------------------------------------------------------------------------
(* checkAllAndLatest *)

checkAllAndLatest_LatestWithArgs(a, c) ==
    IF Bool(c, "all") /\ Len(a) > 0 THEN Err("NoArgumentsNeeded", "")
    ELSE IF Bool(c, "all") /\ Bool(c, "latest") THEN Err("AllAndLatest", "")
    ELSE IF Len(a) < 1 /\ ~Bool(c, "all") /\ ~Bool(c, "latest")
         THEN Err("NoPodGiven", "")
    ELSE Nil

\* checkAllAndLatest(c), with a == c.Args()
checkAllAndLatest(a, c) ==
    IF (Bool(c, "all") \/ Bool(c, "latest")) /\ Len(a) > 0
    THEN Err("NoArgumentsNeeded", "")
    ELSE IF Bool(c, "all") /\ Bool(c, "latest") THEN Err("AllAndLatest", "")
    ELSE IF Len(a) < 1 /\ ~Bool(c, "all") /\ ~Bool(c, "latest")
         THEN Err("NoPodGiven", "")
    ELSE Nil

\* A call of checkAllAndLatest(c).
CheckAllAndLatest ==
    /\ cmd = "checkAllAndLatest" /\ pc = "entry"
    /\ ret' = checkAllAndLatest(cargs, flags)
    /\ pc' = "done"
    /\ UNCHANGED << inputVars, envVars, outVars, pruneVars, args, idx, sigProxy,
                    lastError, exitCode, rtOpen, calls, attachCalls, iterLog,
                    filterState >>

\* The flag values of a bulk command that takes --all and --latest.
BulkFlags(all, latest) == [ all |-> BoolStr(all), latest |-> BoolStr(latest) ]

----------------------------------------------------------------------------
(* getAllOrLatestContainers *)

\* libpod's nil *Container
NilCtr == ""

\* runtime.LookupContainer(i): the handle, or nil and an error
LookupContainer(i) ==
    IF LookupOk(i) THEN [ctr |-> Resolve(i), err |-> Nil]
    ELSE [ctr |-> NilCtr, err |-> Err("NoSuchCtr", i)]

\* What c.State() gives: the container's state, or an error together with
\* whatever state value the call returns with it.
StateResults(ctr) ==
    { [state |-> ctrState[ctr], err |-> FALSE] }
    \cup { [state |-> s, err |-> TRUE] : s \in States }

\* The orders in which runtime.GetContainers can return the set S.
Orders(S) == { q \in [1..Cardinality(S) -> S] : \A c \in S : \E k \in DOMAIN q : q[k] = c }

AppendIfNotNil_Always(seq, ctr) == Append(seq, ctr)

\* if container != nil { containers = append(containers, container) }
AppendIfNotNil(seq, ctr) == IF ctr # NilCtr THEN Append(seq, ctr) ELSE seq

InSelect == cmd = "getAllOrLatestContainers"

\* --all and runtime.GetContainers fails: return nil and the wrapped error.
SelectAllFailed ==
    /\ InSelect /\ pc = "entry"
    /\ Bool(flags, "all")
    /\ calls' = Append(calls, Call("list", "", FALSE))
    /\ containers' = << >>
    /\ ret' = Err("UnableToGetContainers", "")
    /\ pc' = "done"
    /\ UNCHANGED << inputVars, envVars, outVars, units, unitSt, poolErrs, maxWorkers, args,
                    idx, sigProxy, lastError, exitCode, rtOpen, attachCalls,
                    iterLog, filterState >>

filterFunc_Inverted(state, fs) == state # fs

\* The filter function of --all: state, _ := c.State(); return state == filterState
filterFunc(state, fs) == state = fs

\* --all: every container, or with a filter state those whose c.State() gives
\* that state (the error of c.State() is dropped).
SelectAll ==
    /\ InSelect /\ pc = "entry"
    /\ Bool(flags, "all")
    /\ calls' = Append(calls, Call("list", "", FALSE))
    /\ \E q \in [live -> [state : States, err : BOOLEAN]] :
         /\ \A c \in live : q[c] \in StateResults(c)
         /\ filterState # NoFilter \/ \A c \in live : ~q[c].err
         /\ LET keep == IF filterState # NoFilter
                        THEN { c \in live : filterFunc(q[c].state, filterState) }
                        ELSE live
            IN \E order \in Orders(keep) : containers' = order
         /\ iterLog' = IF filterState # NoFilter
                       THEN [c \in live |-> q[c]]
                       ELSE << >>
    /\ ret' = lastError
    /\ pc' = "done"
    /\ UNCHANGED << inputVars, envVars, outVars, units, unitSt, poolErrs, maxWorkers, args,
                    idx, sigProxy, lastError, exitCode, rtOpen, attachCalls,
                    filterState >>

\* --latest and runtime.GetLatestContainer fails.
SelectLatestFailed ==
    /\ InSelect /\ pc = "entry"
    /\ ~Bool(flags, "all") /\ Bool(flags, "latest")
    /\ calls' = Append(calls, Call("latest", "", FALSE))
    /\ containers' = << >>
    /\ ret' = Err("LatestFailed", "")
    /\ pc' = "done"
    /\ UNCHANGED << inputVars, envVars, outVars, units, unitSt, poolErrs, maxWorkers, args,
                    idx, sigProxy, lastError, exitCode, rtOpen, attachCalls,
                    iterLog, filterState >>

\* --latest: the latest container alone.
SelectLatest ==
    /\ InSelect /\ pc = "entry"
    /\ ~Bool(flags, "all") /\ Bool(flags, "latest")
    /\ calls' = Append(calls, Call("latest", "", FALSE))
    /\ \E lastCtr \in live : containers' = Append(containers, lastCtr)
    /\ ret' = lastError
    /\ pc' = "done"
    /\ UNCHANGED << inputVars, envVars, outVars, units, unitSt, poolErrs, maxWorkers, args,
                    idx, sigProxy, lastError, exitCode, rtOpen, attachCalls,
                    iterLog, filterState >>

\* Neither flag: the loop over c.Args() begins.
SelectArgs ==
    /\ InSelect /\ pc = "entry"
    /\ ~Bool(flags, "all") /\ ~Bool(flags, "latest")
    /\ args' = cargs
    /\ idx' = 1
    /\ pc' = "loop"
    /\ UNCHANGED << inputVars, envVars, outVars, pruneVars, sigProxy, lastError,
                    ret, exitCode, rtOpen, calls, attachCalls, iterLog, filterState >>

\* One iteration: look the identifier up; on an error print the pending error
\* and keep the new one; append the handle unless it is nil.
SelectLookup ==
    /\ InSelect /\ pc = "loop" /\ idx <= Len(args)
    /\ LET r == LookupContainer(args[idx]) IN
       /\ calls' = Append(calls, Call("lookup", args[idx], FALSE))
       /\ stderr' = IF r.err # Nil THEN FlushLastError(stderr, lastError)
                    ELSE stderr
       /\ lastError' = IF r.err # Nil THEN Err("UnableToFind", args[idx])
                       ELSE lastError
       /\ containers' = AppendIfNotNil(containers, r.ctr)
    /\ idx' = idx + 1
    /\ UNCHANGED << inputVars, envVars, units, unitSt, poolErrs, maxWorkers, pc, args,
                    sigProxy, ret, exitCode, rtOpen, attachCalls, stdout,
                    iterLog, filterState >>

\* return containers, lastError
SelectReturn ==
    /\ InSelect /\ pc = "loop" /\ idx > Len(args)
    /\ ret' = lastError
    /\ pc' = "done"
    /\ UNCHANGED << inputVars, envVars, outVars, pruneVars, args, idx, sigProxy,
                    lastError, exitCode, rtOpen, calls, attachCalls, iterLog,
                    filterState >>

InitCheck ==
    /\ cmd = "checkAllAndLatest"
    /\ cargs \in SeqsUpTo(ArgIdents, MaxArgs)
    /\ \E all \in BOOLEAN, latest \in BOOLEAN : flags = BulkFlags(all, latest)
    /\ live = Containers
    /\ ctrState = [c \in Containers |-> ContainerStateCreated]
    /\ ctrRm = [c \in Containers |-> FALSE]
    /\ ctrPod = [c \in Containers |-> ""]
    /\ filterState = NoFilter
    /\ Idle

\* getAllOrLatestContainers(c, runtime, filterState, verb): with --all over
\* containers in every state and every filter state, otherwise over every
\* list of identifiers.
InitSelect ==
    /\ cmd = "getAllOrLatestContainers"
    /\ live \in SUBSET Containers /\ live # {}
    /\ ctrRm = [c \in Containers |-> FALSE]
    /\ ctrPod = [c \in Containers |-> ""]
    /\ \/ /\ \E latest \in BOOLEAN : flags = BulkFlags(TRUE, latest)
          /\ cargs \in SeqsUpTo(ArgIdents, 1)
          /\ ctrState \in [Containers -> States]
          /\ filterState \in States \cup {NoFilter}
       \/ /\ \E latest \in BOOLEAN : flags = BulkFlags(FALSE, latest)
          /\ cargs \in SeqsUpTo(ArgIdents, MaxIds)
          /\ ctrState \in [Containers -> StartStates]
          /\ filterState \in {NoFilter, ContainerStateRunning}
    /\ Idle

NextSelect ==
    \/ CheckAllAndLatest
    \/ SelectAllFailed
    \/ SelectAll
    \/ SelectLatestFailed
    \/ SelectLatest
    \/ SelectArgs
    \/ SelectLookup
    \/ SelectReturn

SpecSelect == (InitCheck \/ InitSelect) /\ [][NextSelect]_vars

----------------------------------------------------------------------------
(* container prune *)

\* The flag values of a prune invocation: pruneContainersCommand declares no
\* flags of its own; max-workers is a global flag.
PruneFlags(set, n) == [ maxWorkersSet |-> BoolStr(set), maxWorkers |-> n ]

\* c.GlobalIsSet("max-workers")
GlobalIsSetMaxWorkers(c) == c.maxWorkersSet = "true"

\* c.GlobalInt("max-workers")
GlobalIntMaxWorkers(c) == c.maxWorkers

filter_NoPodCheck(state, errNil, podID) ==
    state = ContainerStateStopped \/ (state = ContainerStateExited /\ errNil)

\* The filter without the conditions on an Exited container.
filter_AnyExited(state, errNil, podID) ==
    state \in {ContainerStateStopped, ContainerStateExited}

\* filter: state == Stopped || (state == Exited && err == nil && c.PodID() == "")
filter(state, errNil, podID) ==
    \/ state = ContainerStateStopped
    \/ (state = ContainerStateExited /\ errNil /\ podID = "")

\* One entry of deleteFuncs.
ParallelWorkerInput(con, force) == [ContainerID |-> con, con |-> con, force |-> force]

deleteFuncs_Forced(dels, force) ==
    [k \in 1..Len(dels) |-> ParallelWorkerInput(dels[k], TRUE)]

\* The loop without its "con := container" copy: every closure sees the
\* loop variable's last value.
deleteFuncs_CapturedLoopVar(dels, force) ==
    [k \in 1..Len(dels) |-> ParallelWorkerInput(dels[Len(dels)], force)]

\* for _, container := range delContainers { deleteFuncs = append(...) }
deleteFuncs(dels, force) ==
    [k \in 1..Len(dels) |-> ParallelWorkerInput(dels[k], force)]

InPrune == cmd = "prune"

\* adapter.GetRuntime(c) fails.
PruneRuntimeFailed ==
    /\ InPrune /\ pc = "entry"
    /\ rtOpen' = "failed"
    /\ ret' = Err("RuntimeCreate", "")
    /\ pc' = "done"
    /\ UNCHANGED << inputVars, envVars, outVars, pruneVars, args, idx, sigProxy,
                    lastError, exitCode, calls, attachCalls, iterLog,
                    filterState >>

\* maxWorkers := shared.Parallelize("rm"), or the max-workers global flag
PruneMaxWorkers(c, dflt) ==
    IF GlobalIsSetMaxWorkers(c) THEN GlobalIntMaxWorkers(c) ELSE dflt

\* runtime.GetContainers(filter) fails: pruneContainers returns the error.
PruneQueryFailed ==
    /\ InPrune /\ pc = "entry"
    /\ \E dflt \in 1..MaxWorkers :
         /\ ~GlobalIsSetMaxWorkers(flags) \/ dflt = 1
         /\ maxWorkers' = PruneMaxWorkers(flags, dflt)
    /\ calls' = Append(calls, Call("list", "", FALSE))
    /\ rtOpen' = "shutdown"
    /\ ret' = Err("GetContainersFailed", "")
    /\ pc' = "done"
    /\ UNCHANGED << inputVars, envVars, outVars, containers, units, unitSt,
                    poolErrs, args, idx, sigProxy, lastError, exitCode,
                    attachCalls, iterLog, filterState >>

\* runtime.GetContainers(filter): the filter is applied to every container,
\* each with the outcome of its own c.State(); then, unless nothing
\* qualifies, one deleteFunc per container is built and handed to the pool.
PruneSelect ==
    /\ InPrune /\ pc = "entry"
    /\ \E dflt \in 1..MaxWorkers :
         /\ ~GlobalIsSetMaxWorkers(flags) \/ dflt = 1
         /\ maxWorkers' = PruneMaxWorkers(flags, dflt)
    /\ calls' = Append(calls, Call("list", "", FALSE))
    /\ \E q \in [live -> [state : States, err : BOOLEAN]] :
         /\ \A c \in live : q[c] \in StateResults(c)
         /\ iterLog' = q
         /\ \E order \in Orders({ c \in live :
                                    filter(q[c].state, ~q[c].err, ctrPod[c]) }) :
              /\ containers' = order
              /\ IF Len(order) < 1
                 THEN /\ units' = units
                      /\ unitSt' = unitSt
                      /\ ret' = Nil
                      /\ rtOpen' = "shutdown"
                      /\ pc' = "done"
                 ELSE /\ units' = deleteFuncs(order, Bool(flags, "force"))
                      /\ unitSt' = [k \in 1..Len(order) |-> "queued"]
                      /\ ret' = ret
                      /\ rtOpen' = "open"
                      /\ pc' = "pool"
    /\ UNCHANGED << inputVars, envVars, outVars, poolErrs, args, idx, sigProxy,
                    lastError, exitCode, attachCalls, filterState >>

Running == { k \in DOMAIN unitSt : unitSt[k] = "running" }
Queued  == { k \in DOMAIN unitSt : unitSt[k] = "queued" }

\* A free worker takes the next unit from the job queue.
PoolTake ==
    /\ InPrune /\ pc = "pool"
    /\ Queued # {}
    /\ Cardinality(Running) < maxWorkers
    /\ LET k == CHOOSE j \in Queued : \A i \in Queued : j <= i IN
       unitSt' = [unitSt EXCEPT ![k] = "running"]
    /\ UNCHANGED << inputVars, envVars, outVars, containers, units, poolErrs,
                    maxWorkers, pc, args, idx, sigProxy, lastError, ret,
                    exitCode, rtOpen, calls, attachCalls, iterLog, filterState >>

\* A worker runs its unit: runtime.RemoveContainer(ctx, con, force); a failure
\* is kept under the unit's container ID.
PoolRun ==
    /\ InPrune /\ pc = "pool"
    /\ \E k \in Running :
         /\ unitSt' = [unitSt EXCEPT ![k] = "done"]
         /\ calls' = Append(calls, Call("remove", units[k].con, units[k].force))
         /\ \E ok \in BOOLEAN :
              /\ live' = IF ok THEN live \ {units[k].con} ELSE live
              /\ poolErrs' = IF ok THEN poolErrs
                             ELSE Append(poolErrs, units[k].ContainerID)
    /\ UNCHANGED << inputVars, ctrState, ctrRm, ctrPod, outVars, containers,
                    units, maxWorkers, pc, args, idx, sigProxy, lastError, ret,
                    exitCode, rtOpen, attachCalls, iterLog, filterState >>

\* Every unit has run: printParallelOutput prints the failures, and prune
\* fails if there is any.
PruneReturn ==
    /\ InPrune /\ pc = "pool"
    /\ \A k \in DOMAIN unitSt : unitSt[k] = "done"
    /\ stderr' = stderr \o [k \in 1..Len(poolErrs) |-> Err("RemoveFailed", poolErrs[k])]
    /\ ret' = IF Len(poolErrs) > 0 THEN Err("PruneFailed", "") ELSE Nil
    /\ rtOpen' = "shutdown"
    /\ pc' = "done"
    /\ UNCHANGED << inputVars, envVars, stdout, pruneVars, args, idx, sigProxy,
                    lastError, exitCode, calls, attachCalls, iterLog,
                    filterState >>

InitPrune ==
    /\ cmd = "prune"
    /\ cargs = << >>
    /\ \E set \in BOOLEAN, n \in 0..MaxWorkers :
         /\ (set <=> n > 0)
         /\ flags = PruneFlags(set, n)
    /\ live = Containers
    /\ ctrState \in [Containers -> States]
    /\ ctrRm = [c \in Containers |-> FALSE]
    /\ ctrPod \in [Containers -> Pods]
    /\ filterState = NoFilter
    /\ Idle

NextPrune ==
    \/ PruneRuntimeFailed
    \/ PruneQueryFailed
    \/ PruneSelect
    \/ PoolTake
    \/ PoolRun
    \/ PruneReturn

SpecPrune == InitPrune /\ [][NextPrune]_vars

----------------------------------------------------------------------------
(* Properties of the start command *)

AttachRequested == flags.attach = "true"
LatestRequested == flags.latest = "true"

CallsNamed(op) == { k \in 1..Len(calls) : calls[k].op = op }

RemovesIn(i, ctr) ==
    { k \in 1..Len(calls) : /\ calls[k].op = "remove" /\ calls[k].iter = i
                            /\ calls[k].on = ctr /\ calls[k].force }

\* C1: with attach requested and more than one target (the explicit
\* identifiers plus the container --latest adds), start fails with the
\* invalid-argument error and issues no attach call and no start call.
C1_AttachMultipleTargetsRejected ==
    (cmd = "start" /\ AttachRequested /\ (Len(cargs) > 1 \/ Len(args) > 1))
    => /\ CallsNamed("attach") = {}
       /\ CallsNamed("start") = {}
       /\ attachCalls = << >>
       /\ (pc = "done" => ret \in InvalidArgument)

\* C2 as stated: a failed detached start of a container created with the
\* remove-on-exit policy issues exactly one forced removal of it, one created
\* without the policy issues none; no removal for a started or running target.
C2_RemovalFollowsCreationPolicy ==
    cmd = "start" =>
    \A i \in 1..Len(iterLog) :
        LET it == iterLog[i] IN
        /\ it.outcome = "startFailed"
             => Cardinality(RemovesIn(i, it.ctr)) = (IF ctrRm[it.ctr] THEN 1 ELSE 0)
        /\ it.outcome \in {"started", "running"} => CallsIn("remove", i) = {}

\* C2 amended: a failed detached start issues exactly one forced removal of
\* the container when its create-config artifact was loaded and decodes with
\* the remove-on-exit flag set (for a clean decode: the policy it was created
\* with), and no removal otherwise, in particular none when the artifact
\* cannot be loaded; no removal for a started or already running target.
C2_RemovalFollowsLoadedArtifact ==
    cmd = "start" =>
    \A i \in 1..Len(iterLog) :
        LET it == iterLog[i]
            flagSet == \/ it.artifact = "ok" /\ ctrRm[it.ctr]
                       \/ it.artifact = "jsonErr" /\ ctrRm[it.ctr] /\ it.rm
        IN
        /\ it.outcome = "startFailed"
             => /\ Cardinality(RemovesIn(i, it.ctr)) = (IF flagSet THEN 1 ELSE 0)
                /\ CallsIn("remove", i) = RemovesIn(i, it.ctr)
        /\ it.outcome # "startFailed" => CallsIn("remove", i) = {}

\* A start failed on a container created with --rm, and it was removed.
C2_Witness ==
    \E i \in 1..Len(iterLog) :
        /\ iterLog[i].outcome = "startFailed"
        /\ iterLog[i].artifact = "ok"
        /\ ctrRm[iterLog[i].ctr]
        /\ Cardinality(RemovesIn(i, iterLog[i].ctr)) = 1

\* C3: once a detached start has returned, every target that follows a target with a
\* lookup, state-query or start failure has been looked up.
C3_ErrorsNeverAbort ==
    (cmd = "start" /\ ~AttachRequested /\ pc = "done") =>
    \A i \in 1..Len(iterLog) :
        iterLog[i].outcome \in {"lookupFailed", "stateFailed", "startFailed"}
        => \A j \in (i+1)..Len(args) : CallsIn("lookup", j) # {}

\* C4: an iteration of a detached start on a container whose state is Running,
\* and that goes on to the next target, echoes the container's ID, records no
\* error, and issues no call but the lookup and the state query; the runtime's
\* containers are left as they were.
C4_RunningIsNoOp ==
    [][ ( /\ cmd = "start" /\ pc = "loop" /\ idx <= Len(args)
          /\ ~AttachRequested
          /\ Resolve(args[idx]) \in live
          /\ ctrState[Resolve(args[idx])] = ContainerStateRunning
          /\ idx' = idx + 1 )
        => /\ stdout' = Append(stdout, Resolve(args[idx]))
           /\ lastError' = lastError
           /\ stderr' = stderr
           /\ envVars' = envVars
           /\ Len(calls') > Len(calls)
           /\ \A k \in (Len(calls)+1)..Len(calls') :
                  calls'[k].op \in {"lookup", "state"} ]_vars

\* A running container named by "web" was echoed by its ID.
C4_Witness ==
    \E i \in 1..Len(iterLog) :
        /\ iterLog[i].outcome = "running"
        /\ iterLog[i].ident = "web"
        /\ "c2" \in { stdout[k] : k \in 1..Len(stdout) }
        /\ lastError = Nil

\* C6: start with --latest and explicit identifiers is rejected before any
\* runtime call.
C6_LatestWithIdentifiersRejected ==
    (cmd = "start" /\ LatestRequested /\ Len(cargs) > 0)
    => /\ calls = << >>
       /\ attachCalls = << >>
       /\ (pc = "done" => ret \in InvalidArgument)

\* C7: sig-proxy given as true without attach is rejected with an
\* invalid-argument error before any runtime call (the sig-proxy error itself
\* when the earlier checks pass); sig-proxy unset without attach becomes false
\* and the command goes on to create the runtime; with attach the effective
\* sig-proxy is the flag's value, true by default.
C7_SigProxy ==
    cmd = "start" =>
    LET sp        == flags["sig-proxy"]
        dk        == flags["detach-keys"]
        earlierOk == (Len(cargs) >= 1 \/ LatestRequested)
                     /\ ~(Len(dk) >= 2 /\ dk[1] = "-")
    IN
    /\ (sp = "true" /\ ~AttachRequested)
         => /\ pc \in {"entry", "done"}
            /\ calls = << >> /\ attachCalls = << >> /\ rtOpen = "none"
            /\ (pc = "done" => ret \in InvalidArgument)
            /\ (pc = "done" /\ earlierOk => ret = Err("SigProxyWithoutAttach", ""))
    /\ (sp = "unset" /\ ~AttachRequested /\ earlierOk /\ pc # "entry")
         => /\ rtOpen # "none"
            /\ sigProxy = FALSE
            /\ ret \notin InvalidArgument
    /\ (AttachRequested /\ rtOpen # "none") => sigProxy = (sp # "false")
    /\ \A k \in 1..Len(attachCalls) : attachCalls[k].sigProxy = (sp # "false")

\* sig-proxy=true without attach was rejected by the sig-proxy check.
C7_Witness ==
    /\ cmd = "start" /\ pc = "done"
    /\ flags["sig-proxy"] = "true" /\ ~AttachRequested
    /\ ret = Err("SigProxyWithoutAttach", "")

----------------------------------------------------------------------------
(* Properties of checkAllAndLatest and getAllOrLatestContainers *)

AllRequested == flags.all = "true"

\* C5: checkAllAndLatest returns an error exactly for identifiers given with
\* --all or --latest, for --all with --latest, and for neither flag with no
\* identifier; it makes no runtime call.
C5_CheckAllAndLatest ==
    cmd = "checkAllAndLatest" =>
    LET n == Len(cargs)
        violating == \/ n > 0 /\ (AllRequested \/ LatestRequested)
                     \/ AllRequested /\ LatestRequested
                     \/ n = 0 /\ ~AllRequested /\ ~LatestRequested
    IN
    /\ calls = << >> /\ rtOpen = "none"
    /\ pc = "done" => (ret # Nil <=> violating)

\* checkAllAndLatest rejected --latest given with an identifier.
C5_Witness ==
    /\ cmd = "checkAllAndLatest" /\ pc = "done"
    /\ LatestRequested /\ ~AllRequested /\ Len(cargs) > 0
    /\ ret # Nil

RECURSIVE ResolvedHandles(_)
\* The handles of the identifiers of ids that name a live container, in order.
ResolvedHandles(ids) ==
    IF ids = << >> THEN << >>
    ELSE (IF Resolve(Head(ids)) \in live THEN << Resolve(Head(ids)) >> ELSE << >>)
         \o ResolvedHandles(Tail(ids))

Unresolved(ids) == { k \in 1..Len(ids) : Resolve(ids[k]) \notin live }

\* C8: for explicit identifiers getAllOrLatestContainers returns the handles
\* of the identifiers that resolved, in input order, with no nil entry, and
\* an error, naming an unresolved identifier, exactly when one did not resolve.
C8_ExplicitSelection ==
    (cmd = "getAllOrLatestContainers" /\ ~AllRequested /\ ~LatestRequested)
    => /\ \A k \in 1..Len(containers) : containers[k] # NilCtr
       /\ pc = "done"
            => /\ containers = ResolvedHandles(cargs)
               /\ (ret # Nil <=> Unresolved(cargs) # {})
               /\ ret # Nil => \E k \in Unresolved(cargs) :
                                  ret = Err("UnableToFind", cargs[k])

\* Of three identifiers the middle one did not resolve: two handles and an error.
C8_Witness ==
    /\ cmd = "getAllOrLatestContainers" /\ ~AllRequested /\ ~LatestRequested
    /\ pc = "done"
    /\ Len(cargs) = 3
    /\ Unresolved(cargs) = {2}
    /\ containers = << Resolve(cargs[1]), Resolve(cargs[3]) >>
    /\ ret = Err("UnableToFind", cargs[2])

----------------------------------------------------------------------------
(* Properties of container prune *)

Selected == { containers[k] : k \in 1..Len(containers) }

\* C9 as stated: a container is selected for pruning exactly when its state is
\* Stopped, or Exited with no pod, whatever the state query's outcome.
C9_QualifiesIffStoppedOrExitedNoPod ==
    cmd = "prune" =>
    \A c \in DOMAIN iterLog :
        c \in Selected <=> \/ iterLog[c].state = ContainerStateStopped
                           \/ /\ iterLog[c].state = ContainerStateExited
                              /\ ctrPod[c] = ""

\* C9 amended: a container is selected for pruning exactly when its state
\* query gives Stopped (with or without an error), or gives Exited without an
\* error and the container is in no pod.
C9_QualifiesNeedsCleanQueryForExited ==
    cmd = "prune" =>
    \A c \in DOMAIN iterLog :
        c \in Selected <=> \/ iterLog[c].state = ContainerStateStopped
                           \/ /\ iterLog[c].state = ContainerStateExited
                              /\ ~iterLog[c].err
                              /\ ctrPod[c] = ""

\* An Exited container in no pod was selected, one in a pod was not.
C9_Witness ==
    /\ cmd = "prune" /\ DOMAIN iterLog = Containers
    /\ iterLog["c1"] = [state |-> ContainerStateExited, err |-> FALSE]
    /\ iterLog["c2"] = [state |-> ContainerStateExited, err |-> FALSE]
    /\ ctrPod["c1"] = "" /\ ctrPod["c2"] # ""
    /\ Selected = {"c1"}

RemoveCalls == { k \in 1..Len(calls) : calls[k].op = "remove" }

\* C10 as stated: one unit per selected container, tagged with its ID, and
\* every removal is forced.
C10_UnitsRemoveForced ==
    (cmd = "prune" /\ pc \in {"pool", "done"} /\ Len(containers) > 0)
    => /\ Len(units) = Len(containers)
       /\ \A k \in 1..Len(units) :
              /\ units[k].ContainerID = containers[k]
              /\ units[k].con = containers[k]
              /\ units[k].force
       /\ \A k \in RemoveCalls : calls[k].force

\* C10 amended: one unit per selected container, tagged with its ID, and every
\* removal is made with the value of the invocation's force flag, which is
\* false as prune declares no such flag: the removals are not forced.
C10_UnitsRemoveWithForceFlag ==
    (cmd = "prune" /\ pc \in {"pool", "done"} /\ Len(containers) > 0)
    => /\ Len(units) = Len(containers)
       /\ \A k \in 1..Len(units) :
              /\ units[k].ContainerID = containers[k]
              /\ units[k].con = containers[k]
              /\ ~units[k].force
       /\ \A k \in RemoveCalls :
              /\ ~calls[k].force
              /\ calls[k].on \in Selected

\* Two containers were selected and both removals were issued.
C10_Witness ==
    /\ cmd = "prune" /\ pc = "done"
    /\ Len(units) = 2
    /\ { calls[k].on : k \in RemoveCalls } = Selected
    /\ Cardinality(RemoveCalls) = 2

----------------------------------------------------------------------------
(* Properties of prune's worker pool *)

RemovalsOf(con) ==
    { j \in 1..Len(calls) : calls[j].op = "remove" /\ calls[j].on = con }

\* The units whose removal has run and left the container in place.
FailedUnits ==
    { k \in DOMAIN unitSt : unitSt[k] = "done" /\ containers[k] \in live }

\* C11: in a prune over N qualifying containers, with any worker count and
\* any interleaving of the workers, there is one unit per container, a
\* container's removal has been called once when its unit is done and not
\* before, no more than maxWorkers units run at a time, prune returns only
\* when all N units are done, it reports exactly the K failed removals, each
\* under its container's ID, and it fails iff K > 0.
C11_EveryUnitOnceAndKFailures ==
    (cmd = "prune" /\ Len(containers) > 0) =>
      /\ Len(units) = Len(containers)
      /\ DOMAIN unitSt = DOMAIN units
      /\ \A k \in DOMAIN units :
            /\ units[k].ContainerID = containers[k]
            /\ Cardinality(RemovalsOf(containers[k]))
                 = IF unitSt[k] = "done" THEN 1 ELSE 0
      /\ Cardinality(Running) <= maxWorkers
      /\ Len(poolErrs) = Cardinality(FailedUnits)
      /\ { poolErrs[j] : j \in 1..Len(poolErrs) }
           = { containers[k] : k \in FailedUnits }
      /\ (pc = "done" =>
            /\ \A k \in DOMAIN unitSt : unitSt[k] = "done"
            /\ Len(stderr) = Cardinality(FailedUnits)
            /\ { stderr[j] : j \in 1..Len(stderr) }
                 = { Err("RemoveFailed", containers[k]) : k \in FailedUnits }
            /\ (ret # Nil <=> Cardinality(FailedUnits) > 0))
      /\ (pc # "done" => stderr = << >> /\ ret = Nil)

\* Two units, two workers, the second unit's removal called before the
\* first's, one of the two removals failed, prune has returned.
C11_Witness ==
    /\ cmd = "prune" /\ pc = "done"
    /\ Len(units) = 2 /\ maxWorkers = 2
    /\ Cardinality(FailedUnits) = 1
    /\ \E i, j \in 1..Len(calls) :
         /\ i < j
         /\ calls[i].op = "remove" /\ calls[i].on = containers[2]
         /\ calls[j].op = "remove" /\ calls[j].on = containers[1]

\* The containers the state queries and pod associations of this run let
\* qualify for pruning.
Qualifying ==
    { c \in DOMAIN iterLog :
        \/ iterLog[c].state = ContainerStateStopped
        \/ /\ iterLog[c].state = ContainerStateExited
           /\ ~iterLog[c].err
           /\ ctrPod[c] = "" }

\* C12: when the bulk query has answered and no container qualifies, prune
\* has returned success, no unit was built or handed to the pool, no removal
\* was called and nothing was printed.
C12_NothingToPrune ==
    (cmd = "prune" /\ DOMAIN iterLog # {} /\ Qualifying = {}) =>
      /\ pc = "done" /\ ret = Nil
      /\ containers = << >>
      /\ units = << >> /\ unitSt = << >> /\ poolErrs = << >>
      /\ RemoveCalls = {}
      /\ stdout = << >> /\ stderr = << >>

\* Nothing qualified although one container was Exited (in a pod, or with a
\* failed state query) and prune returned success.
C12_Witness ==
    /\ cmd = "prune" /\ pc = "done" /\ ret = Nil
    /\ DOMAIN iterLog = Containers /\ Qualifying = {}
    /\ \E c \in Containers : iterLog[c].state = ContainerStateExited
    /\ units = << >> /\ RemoveCalls = {}

----------------------------------------------------------------------------
(* Properties of getAllOrLatestContainers with --all *)

----------------------------------------------------------------------------
(* Properties of start with attach *)

CleanupsOf(ctr) ==
    { j \in 1..Len(calls) : calls[j].op = "cleanup" /\ calls[j].on = ctr }

\* C14: every attach that was begun on a container that was not running is
\* followed, before the command goes on or returns, by a call of the
\* container's cleanup, whether the attach/start failed, the wait failed or
\* all went well.
C14_CleanupOnEveryAttachExit ==
    cmd = "start" =>
      \A k \in 1..Len(attachCalls) :
          attachCalls[k].start => CleanupsOf(attachCalls[k].ctr) # {}

WaitsOf(ctr) ==
    { j \in 1..Len(calls) : calls[j].op = "wait" /\ calls[j].on = ctr }

\* C15 as stated: after an attach session on a container that was not
\* running, the command has waited and its exit status is the exit code of
\* the container's process; after an attach to a running container it has
\* not waited and the exit status is the one it started with.
C15_ExitStatusIsContainersExitCode ==
    cmd = "start" =>
      \A i \in 1..Len(iterLog) :
          /\ iterLog[i].outcome = "attachedWaited" =>
                /\ WaitsOf(iterLog[i].ctr) # {}
                /\ exitCode = iterLog[i].ecode
          /\ iterLog[i].outcome = "attached" =>
                /\ WaitsOf(iterLog[i].ctr) = {}
                /\ exitCode = 125

\* C15 amended: after an attach session on a container that was not running,
\* the command has waited once; its exit status is the exit code of the
\* container's process when the wait succeeded and is left as it was when
\* the wait failed; after an attach to a running container it has not
\* waited and the exit status is the one it started with.
C15_ExitStatusIsWaitResult ==
    cmd = "start" =>
      \A i \in 1..Len(iterLog) :
          /\ iterLog[i].outcome = "attachedWaited" =>
                /\ Cardinality(WaitsOf(iterLog[i].ctr)) = 1
                /\ exitCode = IF iterLog[i].waitOk THEN iterLog[i].ecode
                              ELSE 125
          /\ iterLog[i].outcome = "attached" =>
                /\ WaitsOf(iterLog[i].ctr) = {}
                /\ exitCode = 125

\* The container was started under attach, exited with code 3, and 3 is the
\* command's exit status.
C15_Witness ==
    /\ cmd = "start" /\ pc = "done" /\ exitCode = 3
    /\ \E i \in 1..Len(iterLog) :
         /\ iterLog[i].outcome = "attachedWaited"
         /\ iterLog[i].waitOk /\ iterLog[i].ecode = 3
         /\ WaitsOf(iterLog[i].ctr) # {}

\* The calls a step adds to the call log.
NewCalls == SubSeq(calls', Len(calls) + 1, Len(calls'))

\* C16: a step that attaches does so once, to the target of the iteration,
\* with start-if-not-running enabled exactly when the container was not
\* Running before the step, and with standard input wired exactly when
\* interactive was requested; it issues no separate start call, and a
\* container that was Running is left Running.
C16_AttachStartsOnlyIfNotRunning ==
    [][ (cmd = "start" /\ attachCalls' # attachCalls) =>
          LET ctr == Resolve(args[idx])
              a   == attachCalls'[Len(attachCalls')]
          IN /\ attachCalls' = Append(attachCalls, a)
             /\ a.ctr = ctr
             /\ a.start = (ctrState[ctr] # ContainerStateRunning)
             /\ a.stdin = IF flags.interactive = "true" THEN "os.Stdin"
                          ELSE "nil"
             /\ \A j \in 1..Len(NewCalls) : NewCalls[j].op # "start"
             /\ (ctrState[ctr] = ContainerStateRunning
                  => ctrState'[ctr] = ContainerStateRunning)
      ]_vars

\* Attached to a running container without starting it and without standard
\* input, interactive not being requested.
C16_Witness ==
    /\ cmd = "start" /\ pc = "done"
    /\ flags.interactive = "false"
    /\ \E k \in 1..Len(attachCalls) :
         /\ ~attachCalls[k].start
         /\ attachCalls[k].stdin = "nil"
         /\ ctrState[attachCalls[k].ctr] = ContainerStateRunning
    /\ \A j \in 1..Len(calls) : calls[j].op # "start"

----------------------------------------------------------------------------
(* Properties of the error reporting of the loops *)

IsFailure(it) == it.outcome \in {"lookupFailed", "stateFailed", "startFailed"}

\* The error a failed iteration of the start loop produces.
ErrorOf(it) ==
    CASE it.outcome = "lookupFailed" -> Err("UnableToFind", it.ident)
      [] it.outcome = "stateFailed"  -> Err("StateFailed", "")
      [] it.outcome = "startFailed"  -> Err("UnableToStart", it.ident)

\* The errors of the failed targets so far, in the order encountered.
Failures ==
    LET failed == SelectSeq(iterLog, IsFailure)
    IN  [k \in 1..Len(failed) |-> ErrorOf(failed[k])]

AllButLast(seq) == SubSeq(seq, 1, Len(seq) - 1)

LastOr(seq, dflt) == IF seq = << >> THEN dflt ELSE seq[Len(seq)]

\* C17: throughout a detached start over its targets, the error stream holds
\* exactly the errors of all failed targets but the last, once each and in
\* the order encountered, while the last is the one pending; the error
\* returned is that of the last failed target, and none iff no target failed.
C17_ErrorsFlushedInOrder ==
    (cmd = "start" /\ ~AttachRequested /\ Len(args) > 0) =>
      /\ stderr = AllButLast(Failures)
      /\ pc = "loop" => lastError = LastOr(Failures, Nil)
      /\ pc = "done" => ret = LastOr(Failures, Nil)

NotFound(ident) == ~LookupOk(ident)

\* The lookup errors of the identifiers examined so far that did not resolve,
\* in discovery order.
LookupFailures ==
    LET unresolved == SelectSeq(SubSeq(args, 1, idx - 1), NotFound)
    IN  [k \in 1..Len(unresolved) |-> Err("UnableToFind", unresolved[k])]

\* C18: throughout an explicit-identifier selection, the error stream holds
\* exactly the lookup errors of all unresolved identifiers but the last, once
\* each and in discovery order, and the one pending error is that of the last
\* unresolved identifier; it is the error returned when every identifier has
\* been examined.
C18_OnePendingLookupError ==
    (InSelect /\ ~AllRequested /\ ~LatestRequested /\ pc \in {"loop", "done"}) =>
      /\ stderr = AllButLast(LookupFailures)
      /\ lastError = LastOr(LookupFailures, Nil)
      /\ pc = "done" => /\ idx = Len(args) + 1
                        /\ ret = lastError

\* Three identifiers, none of which resolved: two different errors were
\* written, the third was returned.
C18_Witness ==
    /\ InSelect /\ ~AllRequested /\ ~LatestRequested /\ pc = "done"
    /\ Len(args) = 3
    /\ Len(stderr) = 2 /\ stderr[1] # stderr[2]
    /\ ret = Err("UnableToFind", args[3])

----------------------------------------------------------------------------
(* Properties of the output of a detached start *)

\* Target i was started successfully or was already running: for a target
\* the loop examined, what its iteration observed; for one it never reached,
\* whether it names a running container.
StartedOrRunning(i) ==
    IF i <= Len(iterLog)
    THEN iterLog[i].outcome \in {"running", "started"}
    ELSE LookupOk(args[i]) /\ ctrState[Resolve(args[i])] = ContainerStateRunning

\* The line echoed for target i: the identifier as given for a container the
\* command started, the container's ID for one found running.
EchoOf(i) ==
    IF i <= Len(iterLog) /\ iterLog[i].outcome = "started"
    THEN args[i]
    ELSE Resolve(args[i])

\* C19: when a detached start has returned, standard output holds one line
\* per target that was started successfully or was already running, in
\* selection order, and no line for any other target.
C19_EchoPerSuccessfulTarget ==
    (cmd = "start" /\ ~AttachRequested /\ pc = "done" /\ Len(args) > 0) =>
      LET ok == SelectSeq([i \in 1..Len(args) |-> i], StartedOrRunning)
      IN  stdout = [k \in 1..Len(ok) |-> EchoOf(ok[k])]

\* C20: a step in which a detached start failed (the one step that loads the
\* creation artifact) records the start error of its target, whatever the
\* artifact load, the decoding and the rollback removal did, prints only the
\* error that was pending, and goes on to the next target without returning.
C20_RollbackFailuresDoNotChangeOutcome ==
    [][ (cmd = "start" /\ \E j \in 1..Len(NewCalls) : NewCalls[j].op = "artifact") =>
          /\ lastError' = Err("UnableToStart", args[idx])
          /\ stderr' = IF lastError # Nil THEN Append(stderr, lastError)
                       ELSE stderr
          /\ idx' = idx + 1
          /\ pc = "loop" /\ pc' = "loop"
          /\ ret' = ret /\ exitCode' = exitCode /\ stdout' = stdout
      ]_vars

\* A start failed and its artifact could not be loaded, another failed and
\* its rollback removal failed; after each, the next target was processed,
\* and the command returned the last start error.
C20_Witness ==
    /\ cmd = "start" /\ pc = "done"
    /\ Len(iterLog) = 3
    /\ iterLog[1].outcome = "startFailed" /\ iterLog[1].artifact = "loadErr"
    /\ iterLog[2].outcome = "startFailed" /\ iterLog[2].rm
    /\ iterLog[2].ctr \in live
    /\ iterLog[3].outcome = "started"
    /\ ret = Err("UnableToStart", iterLog[2].ident)
    /\ stderr = << Err("UnableToStart", iterLog[1].ident) >>

----------------------------------------------------------------------------
(* Frame of a detached start *)

\* C21: no step of a start without attach calls wait on a container or
\* changes the exit status, whatever the targets and their outcomes.
C21_DetachedNeverWaits ==
    [][ (cmd = "start" /\ ~AttachRequested) =>
          /\ exitCode' = exitCode
          /\ \A j \in 1..Len(NewCalls) : NewCalls[j].op # "wait"
          /\ attachCalls' = attachCalls
      ]_vars

\* A detached start over three targets, one started, one failed to start,
\* one found running, has returned: no wait was called and the exit status
\* is the one the command began with.
C21_Witness ==
    /\ cmd = "start" /\ ~AttachRequested /\ pc = "done"
    /\ Len(iterLog) = 3
    /\ \E i \in 1..3 : iterLog[i].outcome = "started"
    /\ \E i \in 1..3 : iterLog[i].outcome = "startFailed"
    /\ \E i \in 1..3 : iterLog[i].outcome = "running"
    /\ \A j \in 1..Len(calls) : calls[j].op # "wait"
    /\ exitCode = 125

----------------------------------------------------------------------------
(* Repeated targets of a detached start *)

StartsOf(ctr) ==
    { j \in 1..Len(calls) : calls[j].op = "start" /\ calls[j].on = ctr }

StartedIn(i, ctr) ==
    iterLog[i].outcome = "started" /\ iterLog[i].ctr = ctr

\* C22 as stated: in a detached start, once the start of a container has
\* succeeded, no later occurrence of that container among the targets issues
\* the start operation on it again.
C22_StartIssuedAtMostOnce ==
    (cmd = "start" /\ ~AttachRequested) =>
      \A c \in Containers :
          \A i \in 1..Len(iterLog) :
              StartedIn(i, c) => \A j \in StartsOf(c) : calls[j].iter <= i

\* C22 amended: a step of a detached start issues the start operation only
\* on the target of its iteration, once, and only when that container is not
\* Running; when the start succeeds (the identifier is echoed) the container
\* is Running afterwards; and an occurrence that finds the container Running
\* issues no start and echoes the container's ID. So a container is started
\* a second time only if its earlier start failed or it stopped in between.
C22_StartOnlyWhenNotRunning ==
    [][ (cmd = "start" /\ ~AttachRequested /\ pc = "loop" /\ NewCalls # << >>) =>
          LET c      == Resolve(args[idx])
              starts == { j \in 1..Len(NewCalls) : NewCalls[j].op = "start" }
          IN /\ \A j \in starts : NewCalls[j].on = c
             /\ Cardinality(starts) <= 1
             /\ starts # {} => ctrState[c] # ContainerStateRunning
             /\ (starts # {} /\ stdout' # stdout) =>
                    /\ ctrState'[c] = ContainerStateRunning
                    /\ stdout' = Append(stdout, args[idx])
             /\ (c \in live /\ ctrState[c] = ContainerStateRunning /\ pc' = "loop") =>
                    /\ starts = {}
                    /\ stdout' = Append(stdout, c)
      ]_vars

\* The same container was named twice: the first occurrence started it, the
\* second found it Running and echoed its ID, and one start was issued.
C22_Witness ==
    /\ cmd = "start" /\ ~AttachRequested /\ pc = "done"
    /\ \E i, k \in 1..Len(iterLog) :
         /\ i < k
         /\ StartedIn(i, iterLog[i].ctr)
         /\ iterLog[k].outcome = "running"
         /\ iterLog[k].ctr = iterLog[i].ctr
         /\ Cardinality(StartsOf(iterLog[i].ctr)) = 1
         /\ Len(stdout) >= 2

====
